---- MODULE Spec2Model ----
(***************************************************************************)
(* Model of the Hadiye service worker (src/sw.js): the Cache Store, the    *)
(* install / activate lifecycle handlers, the fetch router and the three   *)
(* caching strategies, as a state machine whose steps are the suspension   *)
(* points (await / then) of the handlers.                                  *)
(***************************************************************************)
EXTENDS Naturals, Sequences, FiniteSets, TLC

(* ------------------------------ bounds -------------------------------- *)

\* number of fetch events dispatched in one behaviour
MaxFetches == 2

(* ------------------------- program constants -------------------------- *)

CACHE_NAME == "hadiye-v1.0.0"

OFFLINE_URL == "/offline.html"

ROOT_URL == "/"

PRECACHE_ASSETS ==
    << "/",
       "/index.html",
       "/manifest.json",
       "/css/index.css",
       "/css/cibro.css",
       "/css/quran.css",
       "/css/tasbiix.css",
       "/js/main.js",
       "/js/modules/ramadan.js",
       "/js/modules/cibro.js",
       "/js/modules/quran.js",
       "/js/modules/tasbiix.js",
       "/js/modules/animations.js",
       "/data/surahs.json",
       "/data/reflections.json",
       "https://cdnjs.cloudflare.com/ajax/libs/gsap/3.12.5/gsap.min.js",
       "https://cdnjs.cloudflare.com/ajax/libs/gsap/3.12.5/ScrollTrigger.min.js",
       "https://fonts.googleapis.com/css2?family=Amiri+Quran&family=Scheherazade+New:wght@400;700&family=Inter:wght@300;400;500;600&display=swap" >>

\* the generation name of the previously deployed worker version (any name
\* other than CACHE_NAME, as seen by the activate handler's filter)
OLD_CACHE_NAME == "hadiye-v0.9.0"

(* ------------------------------ values -------------------------------- *)

Range(s) == { s[k] : k \in DOMAIN s }

\* JavaScript undefined: the result of a match that finds nothing
Undefined == [type |-> "undefined", status |-> 0, body |-> ""]

\* a promise that has not settled yet
Pending == [type |-> "pending", status |-> 0, body |-> ""]

\* new Response('Offline', { status: 503 })
SyntheticOffline == [type |-> "response", status |-> 503, body |-> "Offline"]

\* a response the network produced for the n-th fetch event's request (each
\* strategy fetches at most once, so every response is told apart by its body)
NetworkResponse(status, n) ==
    [type |-> "response", status |-> status, body |-> "net#" \o ToString(n)]

\* the response cache.addAll stores for every manifest entry
PrecacheResponse == [type |-> "response", status |-> 200, body |-> "precache"]

\* the statuses the network answers with
Statuses == {200, 404}

\* Response.ok
ResponseOk(response) == response.status >= 200 /\ response.status <= 299

(* ----------------------------- requests ------------------------------- *)

HTTP == <<"h", "t", "t", "p", ":">>
HTTPS == <<"h", "t", "t", "p", "s", ":">>
CHROME_EXTENSION ==
    <<"c", "h", "r", "o", "m", "e", "-", "e", "x", "t", "e", "n", "s", "i", "o", "n", ":">>

\* the worker's own origin
ORIGIN_HOST == <<"localhost">>

\* new URL(request.url): protocol as characters, hostname as its dot-separated
\* labels, pathname as its tokens (separators "/" and "." are tokens)
URL(url) ==
    CASE url = "/?source=pwa" ->
           [protocol |-> HTTPS, hostname |-> ORIGIN_HOST, pathname |-> <<"/">>]
      [] url = "/offline.html" ->
           [protocol |-> HTTPS, hostname |-> ORIGIN_HOST,
            pathname |-> <<"/", "offline", ".", "html">>]
      [] url = "/icons/icon-192.png" ->
           [protocol |-> HTTPS, hostname |-> ORIGIN_HOST,
            pathname |-> <<"/", "icons", "/", "icon-192", ".", "png">>]
      [] url = "/data/surahs.json" ->
           [protocol |-> HTTPS, hostname |-> ORIGIN_HOST,
            pathname |-> <<"/", "data", "/", "surahs", ".", "json">>]
      [] url = "/js/main.js" ->
           [protocol |-> HTTPS, hostname |-> ORIGIN_HOST,
            pathname |-> <<"/", "js", "/", "main", ".", "js">>]
      [] url = "chrome-extension://abcdef/content.js" ->
           [protocol |-> CHROME_EXTENSION, hostname |-> <<"abcdef">>,
            pathname |-> <<"/", "content", ".", "js">>]
      [] url = "/index.html" ->
           [protocol |-> HTTPS, hostname |-> ORIGIN_HOST,
            pathname |-> <<"/", "index", ".", "html">>]
      [] url = "/css/index.css" ->
           [protocol |-> HTTPS, hostname |-> ORIGIN_HOST,
            pathname |-> <<"/", "css", "/", "index", ".", "css">>]
      [] url = "/data/app.js" ->
           [protocol |-> HTTPS, hostname |-> ORIGIN_HOST,
            pathname |-> <<"/", "data", "/", "app", ".", "js">>]
      [] url = PRECACHE_ASSETS[16] ->
           [protocol |-> HTTPS, hostname |-> <<"cdnjs", "cloudflare", "com">>,
            pathname |-> <<"/", "ajax", "/", "libs", "/", "gsap", "/", "3", ".", "12",
                           ".", "5", "/", "gsap", ".", "min", ".", "js">>]
      [] url = PRECACHE_ASSETS[18] ->
           [protocol |-> HTTPS, hostname |-> <<"fonts", "googleapis", "com">>,
            pathname |-> <<"/", "css2">>]
      [] url = "https://fonts.gstatic.com/s/amiriquran/v7/amiriquran.woff2" ->
           [protocol |-> HTTPS, hostname |-> <<"fonts", "gstatic", "com">>,
            pathname |-> <<"/", "s", "/", "amiriquran", "/", "v7", "/", "amiriquran",
                           ".", "woff2">>]
      [] url = "https://cdnjs.cloudflare.com.example.org/logo.png" ->
           [protocol |-> HTTPS,
            hostname |-> <<"cdnjs", "cloudflare", "com", "example", "org">>,
            pathname |-> <<"/", "logo", ".", "png">>]
      [] url = "http://api.example.org/times" ->
           [protocol |-> HTTP, hostname |-> <<"api", "example", "org">>,
            pathname |-> <<"/", "times">>]

\* the fetch events the pages of the application raise
Requests ==
    { [method |-> "GET", url |-> "/?source=pwa", mode |-> "navigate"],
      [method |-> "GET", url |-> "/offline.html", mode |-> "navigate"],
      [method |-> "GET", url |-> "/icons/icon-192.png", mode |-> "no-cors"],
      [method |-> "GET", url |-> "/data/surahs.json", mode |-> "cors"],
      [method |-> "GET", url |-> "/js/main.js", mode |-> "no-cors"],
      [method |-> "POST", url |-> "/data/surahs.json", mode |-> "cors"],
      [method |-> "GET", url |-> "chrome-extension://abcdef/content.js",
       mode |-> "no-cors"] }

\* every key a generation can hold
Urls == Range(PRECACHE_ASSETS) \cup {OFFLINE_URL} \cup { r.url : r \in Requests }

(* ------------------------------ router -------------------------------- *)

\* String.prototype.startsWith
StartsWith(s, prefix) ==
    /\ Len(s) >= Len(prefix)
    /\ SubSeq(s, 1, Len(prefix)) = prefix

\* a match of /...$/ against literal text: the text ends with it
EndsWith(s, suffix) ==
    /\ Len(s) >= Len(suffix)
    /\ SubSeq(s, Len(s) - Len(suffix) + 1, Len(s)) = suffix

\* String.prototype.includes
Includes(s, part) ==
    \E k \in 0..Len(s) :
        /\ k + Len(part) <= Len(s)
        /\ SubSeq(s, k + 1, k + Len(part)) = part

\* the fetch listener without its method check
InterceptedAnyMethod(request) ==
    StartsWith(URL(request.url).protocol, <<"h", "t", "t", "p">>)

\* the two early returns of the fetch listener
Intercepted(request) ==
    /\ request.method = "GET"
    /\ StartsWith(URL(request.url).protocol, <<"h", "t", "t", "p">>)

\* the if / else-if chain of the fetch listener
Route(request) ==
    LET url == URL(request.url) IN
    IF StartsWith(url.pathname, <<"/", "data", "/">>)
    THEN "cacheFirst"
    ELSE IF EndsWith(url.pathname, <<".", "js">>) \/ EndsWith(url.pathname, <<".", "css">>)
    THEN "staleWhileRevalidate"
    ELSE IF \/ Includes(url.hostname, <<"fonts", "googleapis", "com">>)
            \/ Includes(url.hostname, <<"fonts", "gstatic", "com">>)
            \/ Includes(url.hostname, <<"cdnjs", "cloudflare", "com">>)
    THEN "cacheFirst"
    ELSE "networkFirst"

(* ------------------------------- state -------------------------------- *)

VARIABLES
    gens,          \* every Cache object ever created: [name, entries]
    cacheKeys,     \* CacheStorage: the listed Cache objects (indices of gens), in creation order
    swState,       \* lifecycle state of the worker whose CACHE_NAME is CACHE_NAME
    installPc,     \* position of the install handler's promise chain
    installHandle, \* the cache the install handler opened
    installError,  \* the install handler's catch ran
    keysAtInstall, \* generation names listed when the install handler started
    skipWaitingFlag,
    activatePc,    \* position of the activate handler's promise chain
    cacheNames,    \* the activate handler's enumeration (caches.keys())
    keysAtActivate,\* the Cache objects that enumeration listed
    pendingDeletes,\* caches.delete calls of the activate handler not yet settled
    controller,    \* the worker version controlling the pages: "none", "old", "new"
    tasks,         \* one record per fetch event
    state,         \* tasbiix.js: the module's state object
    timers,        \* tasbiix.js: delayed resets scheduled by increment, not yet fired
    staleTimers,   \* those of them scheduled before the last reset() / setTarget() call
    storage,       \* localStorage item 'hadiye_tasbiix'
    today,         \* the current day (new Date().toDateString())
    deferredPrompt,\* main.js: the captured beforeinstallprompt event, or NoPrompt
    promptEvents   \* the beforeinstallprompt events the browser has dispatched

workerVars == << gens, cacheKeys, swState, installPc, installHandle, installError,
                 keysAtInstall, skipWaitingFlag, activatePc, cacheNames,
                 keysAtActivate, pendingDeletes, controller, tasks >>

promptVars == << deferredPrompt, promptEvents >>

pageVars == << state, timers, staleTimers, storage, today, promptVars >>

vars == << workerVars, pageVars >>

storeVars == << gens, cacheKeys >>

(* ---------------------------- Cache Store ----------------------------- *)

NoEntries == [u \in Urls |-> Undefined]

\* caches.keys()
ListedNames(keys, g) == [k \in DOMAIN keys |-> g[keys[k]].name]

\* a store in which no name is ever found, so that every open creates a cache
HasNever(name) == FALSE

\* caches.has(name)
Has(name) == \E k \in DOMAIN cacheKeys : gens[cacheKeys[k]].name = name

\* the listed Cache object of that name
HandleOf(name) ==
    cacheKeys[CHOOSE k \in DOMAIN cacheKeys : gens[cacheKeys[k]].name = name]

\* caches.match(url): the first listed cache, in creation order, holding the key
MatchAll(url) ==
    LET hits == { k \in DOMAIN cacheKeys : gens[cacheKeys[k]].entries[url] # Undefined } IN
    IF hits = {} THEN Undefined
    ELSE gens[cacheKeys[CHOOSE k \in hits : \A j \in hits : k <= j]].entries[url]

\* the generation a cache of the given contents leaves a store in
Populated(name, body) ==
    [name |-> name,
     entries |-> [u \in Urls |->
                    IF u \in Range(PRECACHE_ASSETS)
                    THEN [type |-> "response", status |-> 200, body |-> body]
                    ELSE Undefined]]

(* ------------------------ page: tasbiix counter ----------------------- *)

\* number of increment() calls in one behaviour
MaxIncrements == 35

\* number of days a behaviour spans
MaxDay == 2

\* state.target of the module's initial state
DEFAULT_TARGET == 33

\* state.dhikr of the module's initial state (transliterated), and another
\* text a dhikr button sets
DEFAULT_DHIKR == "subhanallah"

Dhikrs == {DEFAULT_DHIKR, "alhamdulillah"}

\* the targets setTarget is called with
Targets == {DEFAULT_TARGET, 99}

\* let state = { count: 0, target: 33, dhikr: ..., totalToday: 0,
\*               lastReset: new Date().toDateString() }
InitialState(day) ==
    [count |-> 0, target |-> DEFAULT_TARGET, dhikr |-> DEFAULT_DHIKR,
     totalToday |-> 0, lastReset |-> day]

\* localStorage before the first saveState
NoItem == [saved |-> FALSE, value |-> InitialState(1)]

\* { ...a, ...b }
Spread(a, b) ==
    [f \in DOMAIN a \cup DOMAIN b |-> IF f \in DOMAIN b THEN b[f] ELSE a[f]]

\* loadState(): the state after it, from the module's state, the stored item
\* and the current day
LoadState(current, item, day) ==
    IF ~item.saved
    THEN current
    ELSE Spread(current,
                IF item.value.lastReset # day
                THEN [item.value EXCEPT !.count = 0, !.lastReset = day]
                ELSE item.value)

\* saveState(): localStorage.setItem(STORAGE_KEY, JSON.stringify(state))
SaveState(s) == [saved |-> TRUE, value |-> s]

(* ------------------------ page: install prompt ------------------------ *)

\* number of beforeinstallprompt events the browser dispatches in one behaviour
MaxPrompts == 3

\* number of prompt() calls on one event in one behaviour
MaxPromptCalls == 2

\* let deferredPrompt = null
NoPrompt == 0

\* the outcomes userChoice resolves with
Outcomes == {"accepted", "dismissed"}

\* a BeforeInstallPromptEvent as the browser dispatches it: prompt() not yet
\* called, userChoice pending, no click handler awaiting it
NewPromptEvent == [calls |-> 0, userChoice |-> "pending", awaiting |-> 0]

\* the install dialog of some event is showing
DialogOpen ==
    \E e \in DOMAIN promptEvents :
        promptEvents[e].calls > 0 /\ promptEvents[e].userChoice = "pending"

\* the page after its first load: the module evaluated, initTasbiix() run over
\* an empty localStorage, setupInstallPrompt() run
InitPage ==
    /\ today = 1
    /\ storage = NoItem
    /\ state = LoadState(InitialState(1), NoItem, 1)
    /\ timers = 0
    /\ staleTimers = 0
    /\ deferredPrompt = NoPrompt
    /\ promptEvents = << >>

(* ------------------------------- Init --------------------------------- *)

\* a program start: the install event of the worker is about to be handled,
\* on a first-ever run, over the generation of the previous version (which
\* controls the pages), over a generation an earlier registration of this
\* same version left behind when the network served other content, or over
\* the generation a previous run of this install handler filled from the same
\* network
InitialStores ==
    { [gens |-> << >>, cacheKeys |-> << >>, controller |-> "none"],
      [gens |-> << Populated(OLD_CACHE_NAME, "old") >>, cacheKeys |-> << 1 >>,
       controller |-> "old"],
      [gens |-> << Populated(CACHE_NAME, "earlier") >>, cacheKeys |-> << 1 >>,
       controller |-> "none"],
      [gens |-> << Populated(CACHE_NAME, "precache") >>, cacheKeys |-> << 1 >>,
       controller |-> "none"] }

Init ==
    /\ \E s \in InitialStores :
         /\ gens = s.gens
         /\ cacheKeys = s.cacheKeys
         /\ controller = s.controller
    /\ swState = "installing"
    /\ installPc = "open"
    /\ installHandle = 0
    /\ installError = FALSE
    /\ keysAtInstall = {}
    /\ skipWaitingFlag = FALSE
    /\ activatePc = "idle"
    /\ cacheNames = << >>
    /\ keysAtActivate = << >>
    /\ pendingDeletes = {}
    /\ tasks = << >>
    /\ InitPage

(* --------------------------- Cache Store ops -------------------------- *)

\* caches.open(name): the listed cache of that name, created (and listed last)
\* when there is none.  Gives the store after the call.
OpenGens(name) ==
    IF Has(name) THEN gens ELSE Append(gens, [name |-> name, entries |-> NoEntries])

OpenKeys(name) ==
    IF Has(name) THEN cacheKeys ELSE Append(cacheKeys, Len(gens) + 1)

OpenHandle(name) ==
    IF Has(name) THEN HandleOf(name) ELSE Len(gens) + 1

\* caches.delete(name): the cache is no longer listed; the object lives on
\* for whoever holds it
DeleteKeys(name) ==
    SelectSeq(cacheKeys, LAMBDA h : gens[h].name # name)

\* a put that stores the response under the key of the root document
PutGensUnderRoot(h, url, response) ==
    [gens EXCEPT ![h].entries[ROOT_URL] = response]

\* cache.put(url, response) on the Cache object h
PutGens(h, url, response) ==
    [gens EXCEPT ![h].entries[url] = response]

(* ----------------------------- install -------------------------------- *)

\* caches.open(CACHE_NAME)
InstallOpen ==
    /\ swState = "installing"
    /\ installPc = "open"
    /\ keysAtInstall' = Range(ListedNames(cacheKeys, gens))
    /\ gens' = OpenGens(CACHE_NAME)
    /\ cacheKeys' = OpenKeys(CACHE_NAME)
    /\ installHandle' = OpenHandle(CACHE_NAME)
    /\ installPc' = "addAll"
    /\ UNCHANGED << swState, installError, skipWaitingFlag, activatePc, cacheNames, keysAtActivate,
                    pendingDeletes, controller, tasks, pageVars >>

\* what the promise handed to event.waitUntil settles as, given whether
\* cache.addAll rejected: the chain ends in a catch that returns normally
InstallOutcome(addAllRejected) == "fulfilled"

\* the host, once the install handler's promise has settled
SettledState(outcome) == IF outcome = "fulfilled" THEN "installed" ELSE "redundant"

\* the install chain with its catch before the skipWaiting step, so that
\* skipWaiting is called after a failed population too
InstallAddAllThenAlwaysSkips ==
    /\ swState = "installing"
    /\ installPc = "addAll"
    /\ \E failing \in 0..Len(PRECACHE_ASSETS) :
         IF failing = 0
         THEN /\ gens' = [gens EXCEPT ![installHandle].entries =
                            [u \in Urls |->
                               IF u \in Range(PRECACHE_ASSETS)
                               THEN PrecacheResponse
                               ELSE @[u]]]
              /\ installError' = FALSE
         ELSE /\ installError' = TRUE
              /\ UNCHANGED gens
    /\ skipWaitingFlag' = TRUE
    /\ installPc' = "fulfilled"
    /\ swState' = "installed"
    /\ UNCHANGED << cacheKeys, installHandle, pageVars, keysAtInstall, activatePc,
                    cacheNames, keysAtActivate, pendingDeletes, controller, tasks >>

\* cache.addAll(PRECACHE_ASSETS) settles: either every entry was fetched with
\* an ok status and all are stored, or entry `failing` was not and none is;
\* then the rest of the chain (skipWaiting() on success, the catch on failure)
\* and the host's reaction to the settled promise
InstallAddAll ==
    /\ swState = "installing"
    /\ installPc = "addAll"
    /\ \E failing \in 0..Len(PRECACHE_ASSETS) :
         IF failing = 0
         THEN /\ gens' = [gens EXCEPT ![installHandle].entries =
                            [u \in Urls |->
                               IF u \in Range(PRECACHE_ASSETS)
                               THEN PrecacheResponse
                               ELSE @[u]]]
              /\ skipWaitingFlag' = TRUE
              /\ installError' = FALSE
              /\ installPc' = InstallOutcome(FALSE)
              /\ swState' = SettledState(InstallOutcome(FALSE))
         ELSE /\ installError' = TRUE
              /\ installPc' = InstallOutcome(TRUE)
              /\ swState' = SettledState(InstallOutcome(TRUE))
              /\ UNCHANGED << gens, skipWaitingFlag >>
    /\ UNCHANGED << cacheKeys, installHandle, pageVars, keysAtInstall, activatePc,
                    cacheNames, keysAtActivate, pendingDeletes, controller, tasks >>

(* ----------------------------- activate ------------------------------- *)

\* the host activates a waiting worker when skipWaiting was called or no page
\* is controlled by the previous version; the pages of the previous version
\* pass to this one, and the activate event is dispatched
ActivateStart ==
    /\ swState = "installed"
    /\ skipWaitingFlag \/ controller # "old"
    /\ swState' = "activating"
    /\ activatePc' = "keys"
    /\ controller' = IF controller = "old" THEN "new" ELSE controller
    /\ UNCHANGED << gens, cacheKeys, installPc, installHandle, pageVars, installError,
                    keysAtInstall, skipWaitingFlag, cacheNames, keysAtActivate, pendingDeletes,
                    tasks >>

\* the filter with its comparison inverted
StaleCachesInverted(names) == SelectSeq(names, LAMBDA name : name = CACHE_NAME)

\* cacheNames.filter((name) => name !== CACHE_NAME)
StaleCaches(names) == SelectSeq(names, LAMBDA name : name # CACHE_NAME)

\* caches.keys() settles and every caches.delete is issued
ActivateKeys ==
    /\ swState = "activating"
    /\ activatePc = "keys"
    /\ cacheNames' = ListedNames(cacheKeys, gens)
    /\ keysAtActivate' = cacheKeys
    /\ pendingDeletes' = Range(StaleCaches(ListedNames(cacheKeys, gens)))
    /\ activatePc' = "deleting"
    /\ UNCHANGED << gens, cacheKeys, swState, installPc, installHandle, pageVars, installError,
                    keysAtInstall, skipWaitingFlag, controller, tasks >>

\* one caches.delete(name) settles
ActivateDelete(name) ==
    /\ swState = "activating"
    /\ activatePc = "deleting"
    /\ name \in pendingDeletes
    /\ cacheKeys' = DeleteKeys(name)
    /\ pendingDeletes' = pendingDeletes \ {name}
    /\ UNCHANGED << gens, swState, installPc, installHandle, pageVars, installError,
                    keysAtInstall, skipWaitingFlag, activatePc, cacheNames, keysAtActivate,
                    controller, tasks >>

\* the activate chain calling clients.claim() without waiting for Promise.all
ActivateClaimAtOnce ==
    /\ swState = "activating"
    /\ activatePc = "deleting"
    /\ controller' = "new"
    /\ activatePc' = "done"
    /\ swState' = "activated"
    /\ UNCHANGED << gens, cacheKeys, installPc, installHandle, pageVars, installError,
                    keysAtInstall, skipWaitingFlag, cacheNames, keysAtActivate, pendingDeletes,
                    tasks >>

\* Promise.all settled: self.clients.claim(), and the handler's promise
\* resolves, which makes the worker activated
ActivateClaim ==
    /\ swState = "activating"
    /\ activatePc = "deleting"
    /\ pendingDeletes = {}
    /\ controller' = "new"
    /\ activatePc' = "done"
    /\ swState' = "activated"
    /\ UNCHANGED << gens, cacheKeys, installPc, installHandle, pageVars, installError,
                    keysAtInstall, skipWaitingFlag, cacheNames, keysAtActivate, pendingDeletes,
                    tasks >>

(* -------------------------- control channel --------------------------- *)

MessageData ==
    { [present |-> FALSE, type |-> ""],
      [present |-> TRUE, type |-> "SKIP_WAITING"],
      [present |-> TRUE, type |-> "PING"] }

\* the message listener taking every payload for the signal
SkipWaitingRequestedAnyType(data) == data.present

\* event.data && event.data.type === 'SKIP_WAITING'
SkipWaitingRequested(data) == data.present /\ data.type = "SKIP_WAITING"

\* the message listener
Message(data) ==
    /\ swState \in {"installing", "installed", "activating", "activated"}
    /\ skipWaitingFlag' = IF SkipWaitingRequested(data) THEN TRUE ELSE skipWaitingFlag
    /\ UNCHANGED << gens, cacheKeys, swState, installPc, installHandle, pageVars, installError,
                    keysAtInstall, activatePc, cacheNames, keysAtActivate, pendingDeletes,
                    controller, tasks >>

\* the tags sync events carry
SyncTags == {"sync-tasbiix", "sync-other"}

\* the sync listener: it logs for the tag 'sync-tasbiix' and does nothing else
Sync(tag) ==
    /\ swState \in {"installing", "installed", "activating", "activated"}
    /\ UNCHANGED vars

\* every page controlled by the previous version is closed
ClientsClose ==
    /\ controller = "old"
    /\ controller' = "none"
    /\ UNCHANGED << gens, cacheKeys, swState, installPc, installHandle, pageVars, installError,
                    keysAtInstall, skipWaitingFlag, activatePc, cacheNames, keysAtActivate,
                    pendingDeletes, tasks >>

(* --------------------------- fetch listener --------------------------- *)

\* fetch(request) rejected: a transport failure
Failure == [type |-> "failure", status |-> 0, body |-> ""]

\* what the fetch(request) of the i-th fetch event can settle as
FetchOutcomes(i) == {Failure} \cup { NetworkResponse(st, i) : st \in Statuses }

\* the n-th fetch event's task, before its handler has run
NewTask(request, cn) ==
    [request |-> request, cn |-> cn, strategy |-> "none", pc |-> "done",
     cached |-> Undefined, handle |-> 0, response |-> Undefined, result |-> Pending,
     responded |-> FALSE, nfetch |-> 0, nmatch |-> 0, nopen |-> 0, nput |-> 0,
     storeError |-> "none"]

\* the first suspension point of each strategy
FirstPc(strategy) ==
    CASE strategy = "cacheFirst" -> "match"
      [] strategy = "networkFirst" -> "fetch"
      [] strategy = "staleWhileRevalidate" -> "open"

\* the fetch listener, run to its return: either an early return, or
\* event.respondWith(strategy(request)) with the strategy suspended at its
\* first await
FetchListener(t) ==
    IF ~Intercepted(t.request)
    THEN t
    ELSE [t EXCEPT !.strategy = Route(t.request),
                   !.pc = FirstPc(Route(t.request)),
                   !.responded = TRUE]

\* a page raises a fetch event; it goes to the worker that controls the page,
\* once that worker is active
FetchEvent(request) ==
    /\ Len(tasks) < MaxFetches
    /\ \/ controller = "old"
       \/ controller = "new" /\ swState = "activated"
    /\ tasks' = Append(tasks,
                   FetchListener(NewTask(request,
                       IF controller = "old" THEN OLD_CACHE_NAME ELSE CACHE_NAME)))
    /\ UNCHANGED << gens, cacheKeys, swState, installPc, installHandle, pageVars, installError,
                    keysAtInstall, skipWaitingFlag, activatePc, cacheNames, keysAtActivate,
                    pendingDeletes, controller >>

\* the variables a strategy step leaves alone besides the store and the network
StrategyFrame ==
    UNCHANGED << swState, installPc, installHandle, pageVars, installError, keysAtInstall,
                 skipWaitingFlag, activatePc, cacheNames, keysAtActivate, pendingDeletes, controller >>

\* strategies run one after the other: a strategy waits for every earlier
\* request to finish
AtInTurn(i, strategy, pc) ==
    /\ i \in DOMAIN tasks
    /\ tasks[i].strategy = strategy
    /\ tasks[i].pc = pc
    /\ \A j \in DOMAIN tasks : j < i => tasks[j].pc = "done"

\* task i is suspended in the given strategy at the given await
At(i, strategy, pc) ==
    /\ i \in DOMAIN tasks
    /\ tasks[i].strategy = strategy
    /\ tasks[i].pc = pc

(* ---------------------------- cacheFirst ------------------------------ *)

\* cacheFirst going to the network whatever the lookup found
CacheFirstAfterMatchRevalidates(t, cached) ==
    [t EXCEPT !.cached = cached, !.nmatch = @ + 1, !.pc = "fetch"]

\* const cached = await caches.match(request); if (cached) return cached;
CacheFirstAfterMatch(t, cached) ==
    IF cached # Undefined
    THEN [t EXCEPT !.cached = cached, !.nmatch = @ + 1, !.result = cached, !.pc = "done"]
    ELSE [t EXCEPT !.cached = cached, !.nmatch = @ + 1, !.pc = "fetch"]

CacheFirstMatch(i) ==
    /\ At(i, "cacheFirst", "match")
    /\ tasks' = [tasks EXCEPT ![i] = CacheFirstAfterMatch(@, MatchAll(@.request.url))]
    /\ UNCHANGED << gens, cacheKeys >>
    /\ StrategyFrame

\* cacheFirst storing what its catch block answers with
CacheFirstAfterFetchStoresOffline(t, outcome) ==
    IF outcome = Failure
    THEN [t EXCEPT !.nfetch = @ + 1, !.response = SyntheticOffline, !.pc = "open"]
    ELSE IF ResponseOk(outcome)
    THEN [t EXCEPT !.nfetch = @ + 1, !.response = outcome, !.pc = "open"]
    ELSE [t EXCEPT !.nfetch = @ + 1, !.response = outcome, !.result = outcome,
                   !.pc = "done"]

\* cacheFirst without the response.ok test
CacheFirstAfterFetchStoresAll(t, outcome) ==
    IF outcome = Failure
    THEN [t EXCEPT !.nfetch = @ + 1, !.result = SyntheticOffline, !.pc = "done"]
    ELSE [t EXCEPT !.nfetch = @ + 1, !.response = outcome, !.pc = "open"]

\* try { const response = await fetch(request); if (response.ok) ... return response }
\* catch { return new Response('Offline', { status: 503 }) }
CacheFirstAfterFetch(t, outcome) ==
    IF outcome = Failure
    THEN [t EXCEPT !.nfetch = @ + 1, !.result = SyntheticOffline, !.pc = "done"]
    ELSE IF ResponseOk(outcome)
    THEN [t EXCEPT !.nfetch = @ + 1, !.response = outcome, !.pc = "open"]
    ELSE [t EXCEPT !.nfetch = @ + 1, !.response = outcome, !.result = outcome,
                   !.pc = "done"]

CacheFirstFetch(i) ==
    /\ At(i, "cacheFirst", "fetch")
    /\ \E outcome \in FetchOutcomes(i) :
         /\ tasks' = [tasks EXCEPT ![i] = CacheFirstAfterFetch(@, outcome)]
    /\ UNCHANGED << gens, cacheKeys >>
    /\ StrategyFrame

\* const cache = await caches.open(CACHE_NAME); cache.put(request, response.clone());
\* return response;  -- the put is issued and not awaited
AfterOpen(t, handle) ==
    [t EXCEPT !.handle = handle, !.nopen = @ + 1, !.nput = @ + 1,
              !.result = t.response, !.pc = "put"]

CacheFirstOpen(i) ==
    /\ At(i, "cacheFirst", "open")
    /\ gens' = OpenGens(tasks[i].cn)
    /\ cacheKeys' = OpenKeys(tasks[i].cn)
    /\ tasks' = [tasks EXCEPT ![i] = AfterOpen(@, OpenHandle(@.cn))]
    /\ StrategyFrame

\* a cache.put(request, response.clone()) issued by a strategy settles
PutSettled(i) ==
    /\ i \in DOMAIN tasks
    /\ tasks[i].pc = "put"
    /\ gens' = PutGens(tasks[i].handle, tasks[i].request.url, tasks[i].response)
    /\ tasks' = [tasks EXCEPT ![i].pc = "done"]
    /\ UNCHANGED cacheKeys
    /\ StrategyFrame

(* --------------------------- networkFirst ----------------------------- *)

\* networkFirst treating an error status like a transport failure
NetworkFirstAfterFetchErrorFallsBack(t, outcome) ==
    IF outcome = Failure
    THEN [t EXCEPT !.nfetch = @ + 1, !.pc = "match"]
    ELSE IF ResponseOk(outcome)
    THEN [t EXCEPT !.nfetch = @ + 1, !.response = outcome, !.pc = "open"]
    ELSE [t EXCEPT !.nfetch = @ + 1, !.response = outcome, !.pc = "match"]

\* try { const response = await fetch(request); if (response.ok) ... return response }
\* catch (error) { ... }
NetworkFirstAfterFetch(t, outcome) ==
    IF outcome = Failure
    THEN [t EXCEPT !.nfetch = @ + 1, !.pc = "match"]
    ELSE IF ResponseOk(outcome)
    THEN [t EXCEPT !.nfetch = @ + 1, !.response = outcome, !.pc = "open"]
    ELSE [t EXCEPT !.nfetch = @ + 1, !.response = outcome, !.result = outcome,
                   !.pc = "done"]

NetworkFirstFetch(i) ==
    /\ At(i, "networkFirst", "fetch")
    /\ \E outcome \in FetchOutcomes(i) :
         /\ tasks' = [tasks EXCEPT ![i] = NetworkFirstAfterFetch(@, outcome)]
    /\ UNCHANGED << gens, cacheKeys >>
    /\ StrategyFrame

NetworkFirstOpen(i) ==
    /\ At(i, "networkFirst", "open")
    /\ gens' = OpenGens(tasks[i].cn)
    /\ cacheKeys' = OpenKeys(tasks[i].cn)
    /\ tasks' = [tasks EXCEPT ![i] = AfterOpen(@, OpenHandle(@.cn))]
    /\ StrategyFrame

\* networkFirst without the request.mode test
NetworkFirstAfterMatchAnyMode(t, cached) ==
    IF cached # Undefined
    THEN [t EXCEPT !.cached = cached, !.nmatch = @ + 1, !.result = cached, !.pc = "done"]
    ELSE [t EXCEPT !.cached = cached, !.nmatch = @ + 1, !.pc = "matchOffline"]

\* const cached = await caches.match(request); if (cached) return cached;
\* if (request.mode === 'navigate') { ... } return new Response('Offline', ...)
NetworkFirstAfterMatch(t, cached) ==
    IF cached # Undefined
    THEN [t EXCEPT !.cached = cached, !.nmatch = @ + 1, !.result = cached, !.pc = "done"]
    ELSE IF t.request.mode = "navigate"
    THEN [t EXCEPT !.cached = cached, !.nmatch = @ + 1, !.pc = "matchOffline"]
    ELSE [t EXCEPT !.cached = cached, !.nmatch = @ + 1, !.result = SyntheticOffline,
                   !.pc = "done"]

NetworkFirstMatch(i) ==
    /\ At(i, "networkFirst", "match")
    /\ tasks' = [tasks EXCEPT ![i] = NetworkFirstAfterMatch(@, MatchAll(@.request.url))]
    /\ UNCHANGED << gens, cacheKeys >>
    /\ StrategyFrame

\* the navigation fallback ending at the offline document, found or not
NetworkFirstAfterMatchOfflineReturnsIt(t, offlinePage) ==
    [t EXCEPT !.nmatch = @ + 1, !.result = offlinePage, !.pc = "done"]

\* const offlinePage = await caches.match(OFFLINE_URL);
\* if (offlinePage) return offlinePage;
NetworkFirstAfterMatchOffline(t, offlinePage) ==
    IF offlinePage # Undefined
    THEN [t EXCEPT !.nmatch = @ + 1, !.result = offlinePage, !.pc = "done"]
    ELSE [t EXCEPT !.nmatch = @ + 1, !.pc = "matchRoot"]

NetworkFirstMatchOffline(i) ==
    /\ At(i, "networkFirst", "matchOffline")
    /\ tasks' = [tasks EXCEPT ![i] = NetworkFirstAfterMatchOffline(@, MatchAll(OFFLINE_URL))]
    /\ UNCHANGED << gens, cacheKeys >>
    /\ StrategyFrame

\* return caches.match('/');
NetworkFirstAfterMatchRoot(t, root) ==
    [t EXCEPT !.nmatch = @ + 1, !.result = root, !.pc = "done"]

NetworkFirstMatchRoot(i) ==
    /\ At(i, "networkFirst", "matchRoot")
    /\ tasks' = [tasks EXCEPT ![i] = NetworkFirstAfterMatchRoot(@, MatchAll(ROOT_URL))]
    /\ UNCHANGED << gens, cacheKeys >>
    /\ StrategyFrame

(* ----------------------- staleWhileRevalidate ------------------------- *)

\* const cache = await caches.open(CACHE_NAME);
SwrAfterOpen(t, handle) ==
    [t EXCEPT !.handle = handle, !.nopen = @ + 1, !.pc = "match"]

SwrOpen(i) ==
    /\ At(i, "staleWhileRevalidate", "open")
    /\ gens' = OpenGens(tasks[i].cn)
    /\ cacheKeys' = OpenKeys(tasks[i].cn)
    /\ tasks' = [tasks EXCEPT ![i] = SwrAfterOpen(@, OpenHandle(@.cn))]
    /\ StrategyFrame

\* staleWhileRevalidate awaiting the network before it returns
SwrAfterMatchAwaitsNetwork(t, cached) ==
    [t EXCEPT !.cached = cached, !.nmatch = @ + 1, !.result = Pending, !.pc = "fetch"]

\* const cached = await cache.match(request); const networkPromise = fetch(request)...;
\* return cached || networkPromise;
SwrAfterMatch(t, cached) ==
    [t EXCEPT !.cached = cached, !.nmatch = @ + 1,
              !.result = IF cached # Undefined THEN cached ELSE Pending,
              !.pc = "fetch"]

SwrMatch(i) ==
    /\ At(i, "staleWhileRevalidate", "match")
    /\ tasks' = [tasks EXCEPT ![i] =
                   SwrAfterMatch(@, gens[@.handle].entries[@.request.url])]
    /\ UNCHANGED << gens, cacheKeys >>
    /\ StrategyFrame

\* what networkPromise resolves with:
\* .then((response) => { if (response.ok) cache.put(...); return response })
\* .catch(() => cached)
NetworkPromise(t, outcome) == IF outcome = Failure THEN t.cached ELSE outcome

\* the revalidation without its cache.put
SwrAfterFetchNoPut(t, outcome) ==
    [t EXCEPT !.nfetch = @ + 1,
              !.response = IF outcome = Failure THEN Undefined ELSE outcome,
              !.result = IF @ = Pending THEN NetworkPromise(t, outcome) ELSE @,
              !.pc = "done"]

SwrAfterFetch(t, outcome) ==
    LET stores == outcome # Failure /\ ResponseOk(outcome) IN
    [t EXCEPT !.nfetch = @ + 1,
              !.response = IF outcome = Failure THEN Undefined ELSE outcome,
              !.nput = IF stores THEN @ + 1 ELSE @,
              !.result = IF @ = Pending THEN NetworkPromise(t, outcome) ELSE @,
              !.pc = IF stores THEN "put" ELSE "done"]

SwrFetch(i) ==
    /\ At(i, "staleWhileRevalidate", "fetch")
    /\ \E outcome \in FetchOutcomes(i) :
         /\ tasks' = [tasks EXCEPT ![i] = SwrAfterFetch(@, outcome)]
    /\ UNCHANGED << gens, cacheKeys >>
    /\ StrategyFrame

(* ------------------------------- Next --------------------------------- *)

Next ==
    \/ InstallOpen
    \/ InstallAddAll
    \/ ActivateStart
    \/ ActivateKeys
    \/ \E name \in {OLD_CACHE_NAME, CACHE_NAME} : ActivateDelete(name)
    \/ ActivateClaim
    \/ \E data \in MessageData : Message(data)
    \/ \E tag \in SyncTags : Sync(tag)
    \/ ClientsClose
    \/ \E request \in Requests : FetchEvent(request)
    \/ \E i \in 1..MaxFetches : CacheFirstMatch(i)
    \/ \E i \in 1..MaxFetches : CacheFirstFetch(i)
    \/ \E i \in 1..MaxFetches : CacheFirstOpen(i)
    \/ \E i \in 1..MaxFetches : NetworkFirstFetch(i)
    \/ \E i \in 1..MaxFetches : NetworkFirstOpen(i)
    \/ \E i \in 1..MaxFetches : NetworkFirstMatch(i)
    \/ \E i \in 1..MaxFetches : NetworkFirstMatchOffline(i)
    \/ \E i \in 1..MaxFetches : NetworkFirstMatchRoot(i)
    \/ \E i \in 1..MaxFetches : SwrOpen(i)
    \/ \E i \in 1..MaxFetches : SwrMatch(i)
    \/ \E i \in 1..MaxFetches : SwrFetch(i)
    \/ \E i \in 1..MaxFetches : PutSettled(i)

Spec == Init /\ [][Next]_vars

(* ----------------------------- scheduling ---------------------------- *)

\* the steps of task i that wait for the Cache Store alone: a lookup, an open
\* or a put settles once issued, whatever the network and the other tasks do
StoreStep(i) ==
    \/ CacheFirstMatch(i)
    \/ CacheFirstOpen(i)
    \/ NetworkFirstOpen(i)
    \/ NetworkFirstMatch(i)
    \/ NetworkFirstMatchOffline(i)
    \/ NetworkFirstMatchRoot(i)
    \/ SwrOpen(i)
    \/ SwrMatch(i)
    \/ PutSettled(i)

\* the program where Cache Store operations always settle and a network
\* fetch may hang for ever
SpecFair == Spec /\ \A i \in 1..MaxFetches : WF_vars(StoreStep(i))

(* ------------------- the router over more requests ------------------- *)

\* fetch events of every route class: the application's own, its third-party
\* assets (fonts, CDN), and requests of other hosts passing through the worker
RouterRequests ==
    Requests \cup
    { [method |-> "GET", url |-> "/index.html", mode |-> "navigate"],
      [method |-> "GET", url |-> "/css/index.css", mode |-> "no-cors"],
      [method |-> "GET", url |-> "/data/app.js", mode |-> "no-cors"],
      [method |-> "GET", url |-> PRECACHE_ASSETS[16], mode |-> "no-cors"],
      [method |-> "GET", url |-> PRECACHE_ASSETS[18], mode |-> "no-cors"],
      [method |-> "GET",
       url |-> "https://fonts.gstatic.com/s/amiriquran/v7/amiriquran.woff2",
       mode |-> "cors"],
      [method |-> "GET", url |-> "https://cdnjs.cloudflare.com.example.org/logo.png",
       mode |-> "no-cors"],
      [method |-> "GET", url |-> "http://api.example.org/times", mode |-> "cors"] }

\* the worker after a first-ever install and activation: it controls the
\* pages and its generation holds the manifest
InitRouter ==
    /\ gens = << Populated(CACHE_NAME, "precache") >>
    /\ cacheKeys = << 1 >>
    /\ controller = "new"
    /\ swState = "activated"
    /\ installPc = "fulfilled"
    /\ installHandle = 1
    /\ installError = FALSE
    /\ keysAtInstall = {}
    /\ skipWaitingFlag = TRUE
    /\ activatePc = "done"
    /\ cacheNames = << CACHE_NAME >>
    /\ keysAtActivate = << 1 >>
    /\ pendingDeletes = {}
    /\ tasks = << >>
    /\ InitPage

\* the fetch listener run on each event, up to its return
NextRouter == \E request \in RouterRequests : FetchEvent(request)

SpecRouter == InitRouter /\ [][NextRouter]_vars

(* ------------------- Cache Store operations failing ------------------- *)

\* a promise handed to event.respondWith that rejected
Rejected == [type |-> "rejected", status |-> 0, body |-> ""]

\* cacheFirst: `await caches.match(request)` stands before the try block, so
\* its rejection is the rejection of cacheFirst
CacheFirstMatchRejected(t) ==
    [t EXCEPT !.nmatch = @ + 1, !.storeError = "match", !.result = Rejected,
              !.pc = "done"]

CacheFirstMatchFails(i) ==
    /\ At(i, "cacheFirst", "match")
    /\ tasks' = [tasks EXCEPT ![i] = CacheFirstMatchRejected(@)]
    /\ UNCHANGED << gens, cacheKeys >>
    /\ StrategyFrame

\* cacheFirst: `await caches.open(CACHE_NAME)` stands inside the try block,
\* after the fetch: its rejection is caught and answered with the synthetic 503
CacheFirstOpenRejected(t) ==
    [t EXCEPT !.nopen = @ + 1, !.storeError = "open", !.result = SyntheticOffline,
              !.pc = "done"]

CacheFirstOpenFails(i) ==
    /\ At(i, "cacheFirst", "open")
    /\ tasks' = [tasks EXCEPT ![i] = CacheFirstOpenRejected(@)]
    /\ UNCHANGED << gens, cacheKeys >>
    /\ StrategyFrame

\* networkFirst: the rejection of `await caches.open(CACHE_NAME)` is caught
\* by the catch block, which goes on to the cache fallbacks
NetworkFirstOpenRejected(t) ==
    [t EXCEPT !.nopen = @ + 1, !.storeError = "open", !.pc = "match"]

NetworkFirstOpenFails(i) ==
    /\ At(i, "networkFirst", "open")
    /\ tasks' = [tasks EXCEPT ![i] = NetworkFirstOpenRejected(@)]
    /\ UNCHANGED << gens, cacheKeys >>
    /\ StrategyFrame

\* networkFirst: a caches.match of the catch block rejects, and nothing
\* catches it
NetworkFirstMatchRejected(t) ==
    [t EXCEPT !.nmatch = @ + 1, !.storeError = "match", !.result = Rejected,
              !.pc = "done"]

NetworkFirstMatchFails(i) ==
    /\ i \in DOMAIN tasks
    /\ tasks[i].strategy = "networkFirst"
    /\ tasks[i].pc \in {"match", "matchOffline", "matchRoot"}
    /\ tasks' = [tasks EXCEPT ![i] = NetworkFirstMatchRejected(@)]
    /\ UNCHANGED << gens, cacheKeys >>
    /\ StrategyFrame

\* staleWhileRevalidate has no try block: a rejection of caches.open or of
\* cache.match is its own rejection, before any fetch is issued
SwrOpenRejected(t) ==
    [t EXCEPT !.nopen = @ + 1, !.storeError = "open", !.result = Rejected,
              !.pc = "done"]

SwrOpenFails(i) ==
    /\ At(i, "staleWhileRevalidate", "open")
    /\ tasks' = [tasks EXCEPT ![i] = SwrOpenRejected(@)]
    /\ UNCHANGED << gens, cacheKeys >>
    /\ StrategyFrame

SwrMatchRejected(t) ==
    [t EXCEPT !.nmatch = @ + 1, !.storeError = "match", !.result = Rejected,
              !.pc = "done"]

SwrMatchFails(i) ==
    /\ At(i, "staleWhileRevalidate", "match")
    /\ tasks' = [tasks EXCEPT ![i] = SwrMatchRejected(@)]
    /\ UNCHANGED << gens, cacheKeys >>
    /\ StrategyFrame

\* a cache.put rejects: no strategy awaits it, so only the store misses the entry
PutRejected(t) == [t EXCEPT !.storeError = "put", !.pc = "done"]

PutFails(i) ==
    /\ i \in DOMAIN tasks
    /\ tasks[i].pc = "put"
    /\ tasks' = [tasks EXCEPT ![i] = PutRejected(@)]
    /\ UNCHANGED << gens, cacheKeys >>
    /\ StrategyFrame

\* the activate chain has no catch: when caches.keys() rejects, both .then
\* callbacks are skipped and the promise given to event.waitUntil rejects; the
\* host makes the worker activated all the same
ActivateKeysFails ==
    /\ swState = "activating"
    /\ activatePc = "keys"
    /\ activatePc' = "rejected"
    /\ swState' = "activated"
    /\ UNCHANGED << gens, cacheKeys, installPc, installHandle, pageVars, installError,
                    keysAtInstall, skipWaitingFlag, cacheNames, keysAtActivate,
                    pendingDeletes, controller, tasks >>

\* a caches.delete(name) rejects: Promise.all rejects, the .then holding
\* clients.claim() is skipped and the promise given to event.waitUntil rejects
ActivateDeleteFails(name) ==
    /\ swState = "activating"
    /\ activatePc = "deleting"
    /\ name \in pendingDeletes
    /\ pendingDeletes' = pendingDeletes \ {name}
    /\ activatePc' = "rejected"
    /\ swState' = "activated"
    /\ UNCHANGED << gens, cacheKeys, installPc, installHandle, pageVars, installError,
                    keysAtInstall, skipWaitingFlag, cacheNames, keysAtActivate,
                    controller, tasks >>

\* the program over a Cache Store whose operations can fail
NextStoreFailure ==
    \/ Next
    \/ \E i \in 1..MaxFetches : CacheFirstMatchFails(i)
    \/ \E i \in 1..MaxFetches : CacheFirstOpenFails(i)
    \/ \E i \in 1..MaxFetches : NetworkFirstOpenFails(i)
    \/ \E i \in 1..MaxFetches : NetworkFirstMatchFails(i)
    \/ \E i \in 1..MaxFetches : SwrOpenFails(i)
    \/ \E i \in 1..MaxFetches : SwrMatchFails(i)
    \/ \E i \in 1..MaxFetches : PutFails(i)
    \/ ActivateKeysFails
    \/ \E name \in {OLD_CACHE_NAME, CACHE_NAME} : ActivateDeleteFails(name)

SpecStoreFailure == Init /\ [][NextStoreFailure]_vars

(* --------------------- page: tasbiix counter steps -------------------- *)

\* state.count++; state.totalToday++
IncrementState(s) == [s EXCEPT !.count = @ + 1, !.totalToday = @ + 1]

\* increment(): the button was clicked or the space bar pressed; when the
\* target is reached a reset is scheduled one second later
Increment ==
    /\ state.totalToday < MaxIncrements
    /\ state' = IncrementState(state)
    /\ timers' = IF IncrementState(state).count >= state.target THEN timers + 1 ELSE timers
    /\ storage' = SaveState(IncrementState(state))
    /\ UNCHANGED << staleTimers, today, promptVars, workerVars >>

\* the callback of a scheduled reset runs: state.count = 0; saveState().
\* Nothing clears a scheduled reset, so one scheduled before the last reset()
\* or setTarget() call (stale) runs as well
TimerFires(stale) ==
    /\ IF stale THEN staleTimers > 0 ELSE timers > staleTimers
    /\ state' = [state EXCEPT !.count = 0]
    /\ timers' = timers - 1
    /\ staleTimers' = IF stale THEN staleTimers - 1 ELSE staleTimers
    /\ storage' = SaveState([state EXCEPT !.count = 0])
    /\ UNCHANGED << today, promptVars, workerVars >>

\* reset()
Reset ==
    /\ state' = [state EXCEPT !.count = 0]
    /\ storage' = SaveState([state EXCEPT !.count = 0])
    /\ staleTimers' = timers
    /\ UNCHANGED << timers, today, promptVars, workerVars >>

\* setTarget(target)
SetTarget(target) ==
    /\ state' = [state EXCEPT !.target = target, !.count = 0]
    /\ storage' = SaveState([state EXCEPT !.target = target, !.count = 0])
    /\ staleTimers' = timers
    /\ UNCHANGED << timers, today, promptVars, workerVars >>

\* setDhikr(dhikr)
SetDhikr(dhikr) ==
    /\ state' = [state EXCEPT !.dhikr = dhikr]
    /\ storage' = SaveState([state EXCEPT !.dhikr = dhikr])
    /\ UNCHANGED << timers, staleTimers, today, promptVars, workerVars >>

\* the page is loaded again: the modules are evaluated anew (the scheduled
\* resets and the click handlers awaiting a choice are gone with the old page,
\* deferredPrompt is null again) and initTasbiix() runs loadState()
PageLoad ==
    /\ state' = LoadState(InitialState(today), storage, today)
    /\ timers' = 0
    /\ staleTimers' = 0
    /\ deferredPrompt' = NoPrompt
    /\ promptEvents' = [e \in DOMAIN promptEvents |->
                          [promptEvents[e] EXCEPT !.awaiting = 0]]
    /\ UNCHANGED << storage, today, workerVars >>

\* midnight
DayPasses ==
    /\ today < MaxDay
    /\ today' = today + 1
    /\ UNCHANGED << state, timers, staleTimers, storage, promptVars, workerVars >>

NextTasbiix ==
    \/ Increment
    \/ \E stale \in BOOLEAN : TimerFires(stale)
    \/ Reset
    \/ \E target \in Targets : SetTarget(target)
    \/ \E dhikr \in Dhikrs : SetDhikr(dhikr)
    \/ PageLoad
    \/ DayPasses

\* the counter page over an activated worker
SpecTasbiix == InitRouter /\ [][NextTasbiix]_vars

(* --------------------- page: install prompt steps --------------------- *)

tasbiixVars == << state, timers, staleTimers, storage, today >>

\* window 'beforeinstallprompt': e.preventDefault(); deferredPrompt = e.
\* The browser dispatches no new event while an install dialog is showing
BeforeInstallPrompt ==
    /\ Len(promptEvents) < MaxPrompts
    /\ ~DialogOpen
    /\ promptEvents' = Append(promptEvents, NewPromptEvent)
    /\ deferredPrompt' = Len(promptEvents) + 1
    /\ UNCHANGED << tasbiixVars, workerVars >>

\* installBtn 'click', up to its await: if (!deferredPrompt) return;
\* deferredPrompt.prompt(); await deferredPrompt.userChoice. A prompt() call
\* on an event already prompted fails: in some browsers by a rejected promise
\* (the handler goes on to the await), in others by an exception that ends the
\* handler (throws)
InstallClick(throws) ==
    IF deferredPrompt = NoPrompt
    THEN /\ ~throws
         /\ UNCHANGED vars
    ELSE /\ promptEvents[deferredPrompt].calls < MaxPromptCalls
         /\ throws => promptEvents[deferredPrompt].calls > 0
         /\ promptEvents' =
              [promptEvents EXCEPT
                 ![deferredPrompt].calls = @ + 1,
                 ![deferredPrompt].awaiting = IF throws THEN @ ELSE @ + 1]
         /\ UNCHANGED << deferredPrompt, tasbiixVars, workerVars >>

\* the user answers the install dialog of event e: userChoice resolves and
\* every click handler awaiting it resumes: deferredPrompt = null
UserChoiceSettles(e, outcome) ==
    /\ e \in DOMAIN promptEvents
    /\ promptEvents[e].calls > 0
    /\ promptEvents[e].userChoice = "pending"
    /\ promptEvents' = [promptEvents EXCEPT ![e].userChoice = outcome,
                                            ![e].awaiting = 0]
    /\ deferredPrompt' = IF promptEvents[e].awaiting > 0 THEN NoPrompt
                         ELSE deferredPrompt
    /\ UNCHANGED << tasbiixVars, workerVars >>

\* window 'appinstalled': deferredPrompt = null
AppInstalled ==
    /\ deferredPrompt' = NoPrompt
    /\ UNCHANGED << promptEvents, tasbiixVars, workerVars >>

NextPrompt ==
    \/ BeforeInstallPrompt
    \/ \E throws \in BOOLEAN : InstallClick(throws)
    \/ \E e \in 1..MaxPrompts : \E outcome \in Outcomes : UserChoiceSettles(e, outcome)
    \/ AppInstalled
    \/ PageLoad

\* the install button of the page over an activated worker
SpecPrompt == InitRouter /\ [][NextPrompt]_vars

(* ------------------------------ claims -------------------------------- *)

ListedNow == Range(ListedNames(cacheKeys, gens))

\* the fetch of the task's request has settled as a transport failure
FetchFailed(t) == t.nfetch = 1 /\ t.response = Undefined

\* the fetch of the task's request has settled with a response
FetchAnswered(t) == t.nfetch = 1 /\ t.response # Undefined

\* some Cache object, listed or not, holds the response under some key
Stored(response) ==
    \E h \in DOMAIN gens : \E u \in Urls : gens[h].entries[u] = response

\* C1: install is all-or-nothing at the store level: when a precache fetch
\* failed, then once the install handler has settled the listed generations
\* are the ones listed before the attempt (no generation CACHE_NAME that did
\* not exist before).
C1_InstallAllOrNothing ==
    (installError /\ swState = "installed") => ListedNow = keysAtInstall

\* C2: a failed precache population aborts the generation transition: the
\* worker never becomes installed or active, its activate handler never runs
\* and it deletes no generation.
C2_FailedInstallAborts ==
    installError =>
        /\ swState \notin {"installed", "activating", "activated"}
        /\ activatePc = "idle"
        /\ keysAtInstall \subseteq ListedNow

\* the requests rules 1 and 2 of the router leave alone
NotIntercepted(request) ==
    \/ request.method # "GET"
    \/ URL(request.url).protocol \notin {HTTP, HTTPS}

\* C3: for a fetch event whose method is not GET or whose protocol is not
\* http/https the listener makes no Cache Store call, issues no fetch and does
\* not call respondWith, and the Cache Store is unchanged.
C3_BypassTouchesNothing ==
    [][\A i \in DOMAIN tasks' :
          NotIntercepted(tasks'[i].request) =>
              /\ ~tasks'[i].responded
              /\ tasks'[i].strategy = "none"
              /\ tasks'[i].pc = "done"
              /\ tasks'[i].nopen = 0 /\ tasks'[i].nmatch = 0
              /\ tasks'[i].nput = 0 /\ tasks'[i].nfetch = 0
              /\ (i \notin DOMAIN tasks => gens' = gens /\ cacheKeys' = cacheKeys)]_vars

C3_Witness ==
    \E i \in DOMAIN tasks : \E j \in DOMAIN tasks :
        /\ tasks[i].request.method = "POST"
        /\ tasks[j].request.method = "GET"
        /\ URL(tasks[j].request.url).protocol = CHROME_EXTENSION
        /\ cacheKeys # << >>

\* C4: when an entry for the request exists at lookup time, cacheFirst returns
\* exactly that entry, with no network fetch and no cache write.
C4_CacheFirstHit ==
    [][\A i \in DOMAIN tasks :
          ( /\ tasks[i].strategy = "cacheFirst"
            /\ tasks[i].pc = "match"
            /\ tasks'[i] # tasks[i] ) =>
          \A k \in DOMAIN cacheKeys :
              ( /\ gens[cacheKeys[k]].entries[tasks[i].request.url] # Undefined
                /\ \A j \in 1..(k - 1) :
                       gens[cacheKeys[j]].entries[tasks[i].request.url] = Undefined ) =>
              /\ tasks'[i].result = gens[cacheKeys[k]].entries[tasks[i].request.url]
              /\ tasks'[i].pc = "done"
              /\ tasks'[i].nfetch = 0
              /\ tasks'[i].nput = 0 /\ tasks'[i].nopen = 0
              /\ gens' = gens /\ cacheKeys' = cacheKeys]_vars

C4_Witness ==
    \E i \in DOMAIN tasks :
        /\ tasks[i].strategy = "cacheFirst"
        /\ tasks[i].pc = "done"
        /\ tasks[i].result = PrecacheResponse
        /\ tasks[i].nfetch = 0

\* C5: a navigation handled by networkFirst whose fetch failed, with no entry
\* for the request, no offline document and no root document, resolves to the
\* synthetic 503 and never to undefined.
C5_NavigationTotalFailure ==
    \A i \in DOMAIN tasks :
        ( /\ tasks[i].strategy = "networkFirst"
          /\ tasks[i].request.mode = "navigate"
          /\ tasks[i].pc = "done"
          /\ FetchFailed(tasks[i])
          /\ MatchAll(tasks[i].request.url) = Undefined
          /\ MatchAll(OFFLINE_URL) = Undefined
          /\ MatchAll(ROOT_URL) = Undefined ) =>
        tasks[i].result = SyntheticOffline

\* C6: staleWhileRevalidate with no cached entry resolves to the synthetic 503
\* when the fetch fails and to the network response when it succeeds, never
\* to undefined.
C6_SwrMiss ==
    \A i \in DOMAIN tasks :
        ( /\ tasks[i].strategy = "staleWhileRevalidate"
          /\ tasks[i].pc \in {"put", "done"}
          /\ tasks[i].cached = Undefined ) =>
        /\ FetchFailed(tasks[i]) => tasks[i].result = SyntheticOffline
        /\ FetchAnswered(tasks[i]) => tasks[i].result = tasks[i].response
        /\ tasks[i].result # Undefined

\* the network answered the task's fetch with an HTTP error status
ErrorAnswered(t) == FetchAnswered(t) /\ ~ResponseOk(t.response)

\* C7 as stated: an HTTP error response is stored by cacheFirst (on a miss) and
\* networkFirst under the request's key, so that a later lookup finds it.
C7_ErrorStatusStored ==
    \A i \in DOMAIN tasks :
        ( /\ tasks[i].strategy \in {"cacheFirst", "networkFirst"}
          /\ tasks[i].pc = "done"
          /\ ErrorAnswered(tasks[i]) ) =>
        MatchAll(tasks[i].request.url) = tasks[i].response

\* C7 as amended: an HTTP error response is returned as it is by cacheFirst (on
\* a miss) and networkFirst and is not stored: the strategy opens no cache,
\* issues no put, and no cache holds the response.
C7_ErrorStatusNotStored ==
    \A i \in DOMAIN tasks :
        ( /\ tasks[i].strategy \in {"cacheFirst", "networkFirst"}
          /\ tasks[i].nfetch = 1
          /\ tasks[i].response # Undefined
          /\ ~ResponseOk(tasks[i].response) ) =>
        /\ tasks[i].pc = "done"
        /\ tasks[i].result = tasks[i].response
        /\ tasks[i].nopen = 0 /\ tasks[i].nput = 0
        /\ ~Stored(tasks[i].response)

C7_Witness ==
    \E i \in DOMAIN tasks : \E j \in DOMAIN tasks :
        /\ tasks[i].strategy = "cacheFirst"
        /\ tasks[j].strategy = "networkFirst"
        /\ ErrorAnswered(tasks[i]) /\ ErrorAnswered(tasks[j])
        /\ tasks[i].pc = "done" /\ tasks[j].pc = "done"

\* C8: when the activate handler completes, every generation listed at
\* enumeration under a name other than CACHE_NAME has been deleted, and the
\* generation CACHE_NAME is still listed, its entries untouched by the handler.
C8_ActivateDeletesStale ==
    /\ [](activatePc = "done" =>
            \A k \in DOMAIN keysAtActivate :
                IF gens[keysAtActivate[k]].name # CACHE_NAME
                THEN keysAtActivate[k] \notin Range(cacheKeys)
                ELSE keysAtActivate[k] \in Range(cacheKeys))
    /\ [][(activatePc' # activatePc \/ pendingDeletes' # pendingDeletes) =>
            /\ gens' = gens
            /\ \A h \in Range(cacheKeys) :
                   gens[h].name = CACHE_NAME => h \in Range(cacheKeys')]_vars

C8_Witness ==
    /\ activatePc = "done"
    /\ Len(cacheNames) = 2
    /\ ListedNow = {CACHE_NAME}

\* C9: on network failure networkFirst returns the first that exists of: the
\* entry for the request; for a navigation only, the offline document; for a
\* navigation only, the root document.  A request that is no navigation and has
\* no entry gets the synthetic 503, and the two documents are not looked up.
C9_NetworkFirstFallbackOrder ==
    [][\A i \in DOMAIN tasks :
          ( /\ tasks[i].strategy = "networkFirst"
            /\ tasks'[i] # tasks[i] ) =>
          /\ tasks[i].pc = "match" =>
               /\ FetchFailed(tasks[i])
               /\ MatchAll(tasks[i].request.url) # Undefined =>
                    /\ tasks'[i].result = MatchAll(tasks[i].request.url)
                    /\ tasks'[i].pc = "done"
               /\ ( /\ MatchAll(tasks[i].request.url) = Undefined
                    /\ tasks[i].request.mode = "navigate" ) =>
                    /\ tasks'[i].result = Pending
                    /\ tasks'[i].pc = "matchOffline"
               /\ ( /\ MatchAll(tasks[i].request.url) = Undefined
                    /\ tasks[i].request.mode # "navigate" ) =>
                    /\ tasks'[i].result = SyntheticOffline
                    /\ tasks'[i].pc = "done"
                    /\ tasks'[i].nmatch = 1
          /\ tasks[i].pc = "matchOffline" =>
               /\ tasks[i].request.mode = "navigate"
               /\ MatchAll(OFFLINE_URL) # Undefined =>
                    /\ tasks'[i].result = MatchAll(OFFLINE_URL)
                    /\ tasks'[i].pc = "done"
               /\ MatchAll(OFFLINE_URL) = Undefined =>
                    /\ tasks'[i].result = Pending
                    /\ tasks'[i].pc = "matchRoot"
          /\ tasks[i].pc = "matchRoot" =>
               /\ tasks[i].request.mode = "navigate"
               /\ MatchAll(ROOT_URL) # Undefined =>
                    /\ tasks'[i].result = MatchAll(ROOT_URL)
                    /\ tasks'[i].pc = "done"]_vars

C9_Witness ==
    \E i \in DOMAIN tasks :
        /\ tasks[i].strategy = "networkFirst"
        /\ tasks[i].request.url # OFFLINE_URL
        /\ tasks[i].pc = "done"
        /\ tasks[i].nmatch = 2
        /\ tasks[i].result.type = "response"
        /\ tasks[i].result = MatchAll(OFFLINE_URL)

\* a staleWhileRevalidate task that found an entry finishes in this step
SwrRevalidated(i) ==
    /\ tasks[i].strategy = "staleWhileRevalidate"
    /\ tasks[i].cached # Undefined
    /\ tasks[i].pc # "done"
    /\ tasks'[i].pc = "done"

\* C10 as stated: when an entry exists, once the background fetch has settled
\* with a response the entry for the request is the network's response.
C10_SwrStoreReflectsNetwork ==
    [][\A i \in DOMAIN tasks :
          (SwrRevalidated(i) /\ FetchAnswered(tasks'[i])) =>
          gens'[tasks[i].handle].entries[tasks[i].request.url] = tasks'[i].response]_vars

\* C10 as amended: when an entry exists, a background fetch that settles with
\* a successful status issues a put of the response, and once that put has
\* completed the entry for the request in the cache the strategy opened is the
\* network's response; a response with an error status leaves every cache as
\* it was; and a staleWhileRevalidate lookup returns the entry its cache holds.
C10_SwrStoreReflectsOkResponse ==
    [][\A i \in DOMAIN tasks :
          ( /\ tasks[i].strategy = "staleWhileRevalidate"
            /\ tasks'[i] # tasks[i] ) =>
          /\ ( /\ tasks[i].pc = "fetch"
               /\ tasks[i].cached # Undefined
               /\ FetchAnswered(tasks'[i]) ) =>
               IF ResponseOk(tasks'[i].response)
               THEN tasks'[i].pc = "put" /\ tasks'[i].nput = 1
               ELSE tasks'[i].pc = "done" /\ tasks'[i].nput = 0 /\ gens' = gens
          /\ tasks[i].pc = "put" =>
               /\ tasks'[i].pc = "done"
               /\ gens'[tasks[i].handle].entries[tasks[i].request.url] = tasks[i].response
          /\ ( /\ tasks[i].pc = "match"
               /\ gens[tasks[i].handle].entries[tasks[i].request.url] # Undefined ) =>
               tasks'[i].result = gens[tasks[i].handle].entries[tasks[i].request.url]]_vars

C10_Witness ==
    \E i \in DOMAIN tasks : \E j \in DOMAIN tasks :
        /\ i < j
        /\ tasks[i].strategy = "staleWhileRevalidate"
        /\ tasks[j].strategy = "staleWhileRevalidate"
        /\ tasks[i].cached = PrecacheResponse
        /\ tasks[i].pc = "done"
        /\ ResponseOk(tasks[i].response)
        /\ tasks[j].result = tasks[i].response


\* C11: when an entry exists at lookup time staleWhileRevalidate resolves with
\* that entry before the background fetch settles, and what it resolved with
\* stays the same however the fetch ends (a response, an error status, a
\* failure, or never).
C11_SwrReturnsStaleAtOnce ==
    \A i \in DOMAIN tasks :
        ( /\ tasks[i].strategy = "staleWhileRevalidate"
          /\ tasks[i].nmatch = 1
          /\ tasks[i].cached # Undefined ) =>
        /\ tasks[i].result = tasks[i].cached
        /\ tasks[i].result.type = "response"

C11_Witness ==
    \E i \in DOMAIN tasks : \E j \in DOMAIN tasks :
        /\ tasks[i].strategy = "staleWhileRevalidate"
        /\ tasks[j].strategy = "staleWhileRevalidate"
        /\ tasks[i].cached # Undefined /\ tasks[j].cached # Undefined
        /\ tasks[i].pc = "fetch"
        /\ tasks[i].result = tasks[i].cached
        /\ tasks[j].pc = "done"
        /\ FetchFailed(tasks[j])
        /\ tasks[j].result = tasks[j].cached


\* the hosts the hostname rule names
TrustedHosts ==
    { <<"fonts", "googleapis", "com">>,
      <<"fonts", "gstatic", "com">>,
      <<"cdnjs", "cloudflare", "com">> }

\* a GET request over http or https
GetHttp(request) ==
    /\ request.method = "GET"
    /\ URL(request.url).protocol \in {HTTP, HTTPS}

DataPath(request) == StartsWith(URL(request.url).pathname, <<"/", "data", "/">>)

ScriptOrStylePath(request) ==
    \/ EndsWith(URL(request.url).pathname, <<".", "js">>)
    \/ EndsWith(URL(request.url).pathname, <<".", "css">>)

\* C12: every GET http(s) request is answered (respondWith called) by exactly
\* one strategy, the one of the first matching rule: '/data/' prefix ->
\* cacheFirst; .js/.css suffix -> staleWhileRevalidate; trusted third-party
\* host -> cacheFirst; otherwise networkFirst.
C12_RoutingOrder ==
    \A i \in DOMAIN tasks :
        GetHttp(tasks[i].request) =>
        /\ tasks[i].responded
        /\ tasks[i].strategy =
             IF DataPath(tasks[i].request) THEN "cacheFirst"
             ELSE IF ScriptOrStylePath(tasks[i].request) THEN "staleWhileRevalidate"
             ELSE IF URL(tasks[i].request.url).hostname \in TrustedHosts THEN "cacheFirst"
             ELSE "networkFirst"

\* C13: a GET http(s) request matching neither the '/data/' rule nor the
\* .js/.css rule is handled cacheFirst only if its hostname is one of the three
\* allow-listed hosts; any other hostname, one that merely contains such a
\* name included, is handled networkFirst.
C13_HostnameAllowList ==
    \A i \in DOMAIN tasks :
        ( /\ GetHttp(tasks[i].request)
          /\ ~DataPath(tasks[i].request)
          /\ ~ScriptOrStylePath(tasks[i].request)
          /\ URL(tasks[i].request.url).hostname \notin TrustedHosts ) =>
        tasks[i].strategy = "networkFirst"


\* C14: the synthetic 503 "Offline" response is never stored: no Cache object
\* holds it under any key, and a strategy that resolved with it has opened no
\* cache and issued no put, so the store is as that strategy found it.
C14_SyntheticNeverStored ==
    /\ ~Stored(SyntheticOffline)
    /\ \A i \in DOMAIN tasks :
         tasks[i].result = SyntheticOffline =>
         /\ tasks[i].nopen = 0
         /\ tasks[i].nput = 0
         /\ tasks[i].handle = 0
         /\ tasks[i].pc = "done"

C14_Witness ==
    \E i \in DOMAIN tasks : \E j \in DOMAIN tasks :
        /\ tasks[i].strategy = "cacheFirst"
        /\ tasks[j].strategy = "networkFirst"
        /\ tasks[i].result = SyntheticOffline
        /\ tasks[j].result = SyntheticOffline


\* C15: a successful run of the install handler leaves the same generation
\* CACHE_NAME whether it is the first run or a second one over the generation
\* the first run filled: one listed generation of that name, holding one entry
\* per manifest URL (the precached response) and nothing else, and no
\* generation besides those listed before the run.
C15_InstallIdempotent ==
    (swState = "installed" /\ ~installError) =>
    /\ Cardinality({ k \in DOMAIN cacheKeys : gens[cacheKeys[k]].name = CACHE_NAME }) = 1
    /\ installHandle = HandleOf(CACHE_NAME)
    /\ gens[installHandle].entries = Populated(CACHE_NAME, "precache").entries
    /\ ListedNow = keysAtInstall \cup {CACHE_NAME}

C15_Witness ==
    /\ swState = "installed"
    /\ ~installError
    /\ keysAtInstall = {CACHE_NAME}
    /\ gens = << Populated(CACHE_NAME, "precache") >>
    /\ cacheKeys = << 1 >>


\* C16: when a Cache Store operation of a strategy failed and the strategy's
\* fetch was answered by the network, the strategy resolves with the network's
\* response (never with the synthetic 503, never by rejecting).  A
\* staleWhileRevalidate that found an entry answers with the entry, so it is
\* left out.
C16_StoreFailureKeepsNetworkResponse ==
    \A i \in DOMAIN tasks :
        ( /\ tasks[i].storeError # "none"
          /\ FetchAnswered(tasks[i])
          /\ tasks[i].pc = "done"
          /\ ~(tasks[i].strategy = "staleWhileRevalidate" /\ tasks[i].cached # Undefined) ) =>
        tasks[i].result = tasks[i].response


\* C17: however the activate handler's deletion of the previous generation
\* interleaves with a strategy of the worker reading that generation, the
\* strategy completes with a response (an entry, a network response or a
\* fallback); it never settles without one.
C17_ReadRacingDeleteGetsResponse ==
    \A i \in DOMAIN tasks :
        ( /\ tasks[i].cn = OLD_CACHE_NAME
          /\ tasks[i].responded
          /\ tasks[i].pc \in {"put", "done"} ) =>
        tasks[i].result.type = "response"

\* C18: once the activate handler has finished and every in-flight request has
\* settled, only the current generation is listed: a store step of the
\* previous version's worker after the deletion of its generation brings
\* nothing back.
C18_LateStoreIsNoOp ==
    ( /\ activatePc = "done"
      /\ \A i \in DOMAIN tasks : tasks[i].pc = "done" ) =>
    ListedNow \subseteq {CACHE_NAME}


\* the entry the generation named by the worker's CACHE_NAME holds for a key
ActiveEntry(cn, key) ==
    IF Has(cn) THEN gens[HandleOf(cn)].entries[key] ELSE Undefined

\* what a lookup step of task i gave, and for which key: cacheFirst's and
\* networkFirst's caches.match(request), then networkFirst's lookups of the
\* offline document and of the root document
LookupKey(i) ==
    CASE tasks[i].pc = "matchOffline" -> OFFLINE_URL
      [] tasks[i].pc = "matchRoot" -> ROOT_URL
      [] OTHER -> tasks[i].request.url

LookupValue(i) ==
    CASE tasks[i].pc = "matchOffline" ->
           IF tasks'[i].pc = "done" THEN tasks'[i].result ELSE Undefined
      [] tasks[i].pc = "matchRoot" -> tasks'[i].result
      [] OTHER -> tasks'[i].cached

\* C19: every lookup of cacheFirst and of networkFirst's fallbacks is answered
\* from the generation CACHE_NAME of the worker alone: it gives that
\* generation's entry for the key, or nothing when that generation has none,
\* whatever another generation holds.
C19_LookupsOnlyActiveGeneration ==
    [][ \A i \in DOMAIN tasks :
          ( /\ tasks[i].strategy \in {"cacheFirst", "networkFirst"}
            /\ tasks[i].pc \in {"match", "matchOffline", "matchRoot"}
            /\ tasks'[i].nmatch = tasks[i].nmatch + 1 ) =>
          LookupValue(i) = ActiveEntry(tasks[i].cn, LookupKey(i)) ]_vars


\* C20: control-channel events never touch the Cache Store: a message whose
\* payload is absent or is not the SKIP_WAITING signal changes nothing, the
\* SKIP_WAITING message only requests immediate activation (skipWaiting), and
\* a sync event of any tag changes nothing.
C20_ControlChannelFrame ==
    [][ /\ \A data \in MessageData :
             Message(data) =>
             /\ UNCHANGED << gens, cacheKeys, swState, installPc, installHandle, pageVars,
                             installError, keysAtInstall, activatePc, cacheNames,
                             keysAtActivate, pendingDeletes, controller, tasks >>
             /\ IF data.present /\ data.type = "SKIP_WAITING"
                THEN skipWaitingFlag'
                ELSE UNCHANGED skipWaitingFlag
        /\ \A tag \in SyncTags : Sync(tag) => UNCHANGED vars ]_vars

\* the signal arrived while the install handler was still running: only the
\* message listener can have requested the activation
C20_Witness ==
    /\ skipWaitingFlag
    /\ swState = "installing"
    /\ installPc = "addAll"
    /\ gens # << >>


\* C21: when the fetch of a networkFirst resolved with a response, the strategy
\* returns that response unchanged, whatever its status and whatever the store
\* holds for the request: it makes no lookup at all.  When the status is ok the
\* entry of the request in the worker's generation is replaced by the response
\* (or by the response of another request for the same URL stored since).
C21_NetworkFirstReturnsNetwork ==
    \A i \in DOMAIN tasks :
        ( /\ tasks[i].strategy = "networkFirst"
          /\ FetchAnswered(tasks[i]) ) =>
        /\ tasks[i].nmatch = 0
        /\ tasks[i].cached = Undefined
        /\ tasks[i].pc \in {"open", "put", "done"}
        /\ tasks[i].pc \in {"put", "done"} => tasks[i].result = tasks[i].response
        /\ ~ResponseOk(tasks[i].response) => tasks[i].pc = "done" /\ tasks[i].nput = 0
        /\ (ResponseOk(tasks[i].response) /\ tasks[i].pc = "done") =>
             /\ tasks[i].nput = 1
             /\ gens[tasks[i].handle].name = tasks[i].cn
             /\ \E j \in DOMAIN tasks :
                  /\ tasks[j].request.url = tasks[i].request.url
                  /\ gens[tasks[i].handle].entries[tasks[i].request.url] = tasks[j].response

\* a networkFirst answered 404 by the network returns the 404 although the
\* store holds an entry for the request, stored by an earlier request
C21_Witness ==
    \E i \in DOMAIN tasks : \E j \in DOMAIN tasks :
        /\ i # j
        /\ tasks[i].strategy = "networkFirst"
        /\ tasks[i].pc = "done"
        /\ tasks[i].response.status = 404
        /\ tasks[i].result = tasks[i].response
        /\ tasks[j].request.url = tasks[i].request.url
        /\ tasks[j].pc = "done"
        /\ ResponseOk(tasks[j].response)
        /\ MatchAll(tasks[i].request.url) = tasks[j].response


\* C22: requests are independent tasks: an intercepted request that has not
\* resolved yet comes to resolve or to wait for its own network fetch, whatever
\* becomes of the fetches of the other requests (they may hang for ever); a
\* cacheFirst hit and a staleWhileRevalidate hit resolve without the network.
C22_RequestsIndependent ==
    \A i \in 1..MaxFetches :
        (i \in DOMAIN tasks /\ tasks[i].responded /\ tasks[i].result = Pending)
        ~> (i \in DOMAIN tasks /\ (tasks[i].result # Pending \/ tasks[i].pc = "fetch"))

\* a cacheFirst hit and a staleWhileRevalidate hit have resolved while the
\* fetch of the other request is still in flight
C22_Witness ==
    \E i \in DOMAIN tasks : \E j \in DOMAIN tasks :
        /\ i # j
        /\ tasks[j].pc = "fetch"
        /\ tasks[j].result = Pending
        /\ tasks[i].strategy = "cacheFirst"
        /\ tasks[i].nfetch = 0
        /\ tasks[i].result = tasks[i].cached
        /\ tasks[i].result.type = "response"


\* a step of a strategy: some task moved on
StrategyStepOf(i) ==
    /\ i \in DOMAIN tasks
    /\ i \in DOMAIN tasks'
    /\ tasks'[i] # tasks[i]

\* C23: the only changes a strategy makes to the Cache Store are a put into
\* the generation named by the worker's CACHE_NAME under the key of the request
\* it handles (and the creation of that generation by caches.open when it is
\* not listed); it writes under no other key, into no other generation, and
\* removes neither an entry nor a generation.
C23_StrategyWritesOwnKeyOnly ==
    [][ \A i \in DOMAIN tasks :
          StrategyStepOf(i) =>
          \/ /\ gens' = gens
             /\ cacheKeys' = cacheKeys
          \/ /\ ~Has(tasks[i].cn)
             /\ gens' = Append(gens, [name |-> tasks[i].cn, entries |-> NoEntries])
             /\ cacheKeys' = Append(cacheKeys, Len(gens) + 1)
          \/ /\ cacheKeys' = cacheKeys
             /\ tasks[i].handle \in DOMAIN gens
             /\ gens[tasks[i].handle].name = tasks[i].cn
             /\ tasks[i].response.type = "response"
             /\ gens' = [gens EXCEPT ![tasks[i].handle].entries[tasks[i].request.url] =
                                        tasks[i].response] ]_vars

\* a strategy has stored the response of its request in its generation
C23_Witness ==
    \E i \in DOMAIN tasks :
        /\ tasks[i].pc = "done"
        /\ tasks[i].nput = 1
        /\ tasks[i].cn = CACHE_NAME
        /\ gens[tasks[i].handle].name = CACHE_NAME
        /\ gens[tasks[i].handle].entries[tasks[i].request.url] = tasks[i].response
        /\ tasks[i].response.body # "precache"


\* the install handler's chain settles in this step
InstallSettles == installPc = "addAll" /\ installPc' # "addAll"

\* C24: the install handler calls self.skipWaiting() only after cache.addAll
\* has stored every PRECACHE_ASSETS entry: when the population failed the step
\* that settles the handler requests nothing and stores nothing, when it
\* succeeded the same step has stored every entry and requested the
\* activation, so that a successfully installed worker can be activated
\* without any message.
C24_SkipWaitingAfterPopulation ==
    /\ [][ InstallSettles =>
             IF installError'
             THEN UNCHANGED << skipWaitingFlag, gens, cacheKeys >>
             ELSE /\ skipWaitingFlag'
                  /\ \A u \in Range(PRECACHE_ASSETS) :
                       gens'[installHandle].entries[u] = PrecacheResponse ]_vars
    /\ []( (swState = "installed" /\ ~installError) =>
             (skipWaitingFlag /\ ENABLED ActivateStart) )

\* the population failed and no activation has been requested
C24_Witness ==
    /\ installPc = "fulfilled"
    /\ installError
    /\ ~skipWaitingFlag
    /\ swState = "installed"
    /\ controller = "old"


\* the enumerated generations other than CACHE_NAME that are still listed
EnumeratedStaleListed ==
    { k \in DOMAIN keysAtActivate :
        /\ gens[keysAtActivate[k]].name # CACHE_NAME
        /\ keysAtActivate[k] \in Range(cacheKeys) }

\* C25: clients.claim() is invoked only after every enumerated generation
\* other than CACHE_NAME has been deleted; when the enumeration or a deletion
\* fails, the handler's promise rejects and clients.claim() is not invoked,
\* neither then nor later.
C25_ClaimAfterDeletes ==
    /\ [](activatePc = "done" => (pendingDeletes = {} /\ EnumeratedStaleListed = {}))
    /\ [][ (activatePc # "done" /\ activatePc' = "done") =>
             (activatePc = "deleting" /\ pendingDeletes = {} /\ controller' = "new") ]_vars
    /\ [][ (activatePc' = "rejected") =>
             (UNCHANGED controller /\ activatePc \in {"keys", "deleting", "rejected"}) ]_vars
    /\ [][ (activatePc = "rejected") => (activatePc' = "rejected") ]_vars

\* a deletion failed: the handler rejected with the previous generation still
\* listed
C25_Witness ==
    /\ activatePc = "rejected"
    /\ swState = "activated"
    /\ cacheNames # << >>
    /\ OLD_CACHE_NAME \in ListedNow
    /\ EnumeratedStaleListed # {}


\* C26: once an install has populated the generation CACHE_NAME, every
\* navigation request the worker handles by networkFirst resolves with a
\* response, also when the network fails: '/' is a manifest entry, so the last
\* lookup of the fallback chain finds a document.
C26_NavigationFindsRoot ==
    \A i \in DOMAIN tasks :
        ( /\ tasks[i].strategy = "networkFirst"
          /\ tasks[i].request.mode = "navigate"
          /\ tasks[i].cn = CACHE_NAME
          /\ ~installError
          /\ tasks[i].pc = "done" ) =>
        /\ tasks[i].result.type = "response"
        /\ tasks[i].result # SyntheticOffline
        /\ Has(CACHE_NAME)
        /\ gens[HandleOf(CACHE_NAME)].entries[ROOT_URL] = PrecacheResponse

\* the network failed, neither the request nor the offline document was in
\* the store, and the root document answered
C26_Witness ==
    \E i \in DOMAIN tasks :
        /\ tasks[i].strategy = "networkFirst"
        /\ tasks[i].request.mode = "navigate"
        /\ tasks[i].cn = CACHE_NAME
        /\ FetchFailed(tasks[i])
        /\ tasks[i].nmatch = 3
        /\ tasks[i].pc = "done"
        /\ tasks[i].result = PrecacheResponse


\* C27: in the tasbiix counter 0 <= count <= target in every reachable state.
C27_CountWithinTarget ==
    /\ state.count >= 0
    /\ state.count <= state.target

\* C28: the delayed reset clears only the round that reached the target: a
\* reset scheduled before the last reset() or setTarget() call discards none of
\* the increments made since that call.
C28_StaleTimerKeepsIncrements ==
    [][ TimerFires(TRUE) => state'.count = state.count ]_vars

\* C30: totalToday counts the increments of the current day: an increment()
\* adds exactly 1 to it; reset, setTarget, setDhikr and the delayed reset leave
\* it alone; a loadState on a day other than the stored lastReset sets it to 0
\* together with count.
C30_TotalTodayIsPerDay ==
    [][ /\ Increment => state'.totalToday = state.totalToday + 1
        /\ ( \/ Reset
             \/ \E target \in Targets : SetTarget(target)
             \/ \E dhikr \in Dhikrs : SetDhikr(dhikr)
             \/ \E stale \in BOOLEAN : TimerFires(stale) ) =>
           state'.totalToday = state.totalToday
        /\ (PageLoad /\ storage.saved /\ storage.value.lastReset # today) =>
           (state'.totalToday = 0 /\ state'.count = 0) ]_vars

\* C29: a captured beforeinstallprompt event is used at most once: whatever
\* the sequence of install-button clicks, prompt() is called at most once on
\* each event, and once its userChoice has resolved the event is no longer
\* held in deferredPrompt.
C29_PromptUsedOnce ==
    \A e \in DOMAIN promptEvents :
        /\ promptEvents[e].calls <= 1
        /\ promptEvents[e].userChoice # "pending" => deferredPrompt # e

====
